---- MODULE Spec2Model ----
(***************************************************************************)
(* ntfy2clip client (src/src/client.rs): the supervisor loop of main, the  *)
(* session of connect_and_run (select! over the WebSocket stream and the   *)
(* interval timer), the decoding and filtering of inbound text frames and  *)
(* the clipboard tasks spawned for them.                                   *)
(*                                                                         *)
(* Time is counted in whole seconds.  Instants are only ever compared      *)
(* inside one call of connect_and_run, so the clock is read relative to    *)
(* the instant the connection was established.                             *)
(***************************************************************************)
EXTENDS Integers, Sequences, FiniteSets, TLC

VARIABLES
    env,           \* the process environment (TOPIC, TIMEOUT), never written
    envReads,      \* calls of connect_and_run that have read the environment
    pc,            \* where main / connect_and_run is suspended
    attempts,      \* calls of connect_and_run made by main's loop
    endings,       \* returns of connect_and_run
    outcome,       \* how the last call of connect_and_run returned
    waited,        \* seconds slept by main since the last return
    conns,         \* open WebSocket connections (live ws_stream values)
    topic,         \* connect_and_run's local `topic`
    timeout,       \* connect_and_run's local `timeout`
    now,           \* the clock, in seconds since the connection was made
    last_traffic,  \* connect_and_run's local `last_traffic`
    ping_interval, \* next deadline of the interval timer
    ws_stream,     \* frames delivered by the transport, not yet taken by next()
    arrived,       \* frames delivered by the transport over the whole run
    ended,         \* ws_stream.next() has yielded None in this session
    handled,       \* frames taken from the stream by select! over the whole run
    ping,          \* payload of the ping whose pong is being written
    sent,          \* frames written to the connection in this session
    pings,         \* payloads of the pings handled in this session
    sinkLog,       \* texts of the set_clip tasks spawned over the whole run
    tasks,         \* texts of the set_clip tasks still running
    wrote,         \* for each running task: its command has written the text
    clipboard,     \* text last written to the clipboard by a task's command
    lastFrame,     \* the latest frame handled in this session
    frameAt        \* instant the latest frame was handled (connect: 0)

vars == <<env, envReads, pc, attempts, endings, outcome, waited, conns, topic,
          timeout, now, last_traffic, ping_interval, ws_stream, arrived, ended,
          handled, ping, sent, pings, sinkLog, tasks, wrote, clipboard,
          lastFrame, frameAt>>

----------------------------------------------------------------------------
(* Bounds of the model. *)

MaxAttempts == 3

MaxFrames == 2

MaxQueue == 2

MaxPeriods == 3

----------------------------------------------------------------------------
(* Program constants. *)

DEFAULT_TIMEOUT == 120

COOLDOWN_SECS == 5

----------------------------------------------------------------------------
(* JSON values and the bodies of text frames.  A body is what serde_json   *)
(* reads in the text: not JSON at all ("garbage"), an object with the      *)
(* members event, topic and message (each absent, null, a number or a      *)
(* string; any other member is ignored), or an array of up to three        *)
(* elements.                                                               *)

Absent == [t |-> "absent", s |-> ""]

Null == [t |-> "null", s |-> ""]

Num == [t |-> "num", s |-> ""]

Str(s) == [t |-> "str", s |-> s]

Obj(e, t, m) == [form |-> "object", event |-> e, topic |-> t, message |-> m]

Arr(e, t, m) == [form |-> "array", event |-> e, topic |-> t, message |-> m]

Garbage == [form |-> "garbage", event |-> Absent, topic |-> Absent, message |-> Absent]

NoBody == [form |-> "none", event |-> Absent, topic |-> Absent, message |-> Absent]

Text(b) == [kind |-> "Text", body |-> b, payload |-> ""]

Ping(p) == [kind |-> "Ping", body |-> NoBody, payload |-> p]

Pong(p) == [kind |-> "Pong", body |-> NoBody, payload |-> p]

Close == [kind |-> "Close", body |-> NoBody, payload |-> ""]

Binary == [kind |-> "Binary", body |-> NoBody, payload |-> ""]

RecvError == [kind |-> "Err", body |-> NoBody, payload |-> ""]

NoFrame == [kind |-> "None", body |-> NoBody, payload |-> ""]

Bodies ==
    { Obj(Str("message"), Str("alerts"), Str("hello")),
      Arr(Str("message"), Str("alerts"), Str("build failed")),
      Obj(Str("message"), Str("other"), Str("x")),
      Obj(Str("keepalive"), Str("alerts"), Str("x")),
      Obj(Str("message"), Str("alerts"), Null),
      Obj(Absent, Str("alerts"), Str("hello")),
      Obj(Str("message"), Absent, Str("hello")),
      Garbage }

Frames ==
    { Text(b) : b \in Bodies }
        \cup { Ping("a"), Ping("b"), Pong(""), Close, Binary, RecvError }

----------------------------------------------------------------------------
(* The environment.  A variable is unset, or set to a string; TIMEOUT's    *)
(* string is kept as its sequence of characters so that parsing it is a    *)
(* computation.                                                            *)

Unset == [set |-> FALSE, val |-> ""]

Set(v) == [set |-> TRUE, val |-> v]

UnsetChars == [set |-> FALSE, val |-> <<>>]

SetChars(v) == [set |-> TRUE, val |-> v]

\* The environments the process is started in: nothing set; TOPIC set and
\* TIMEOUT "0" (rejected by the filter, so the default applies); TOPIC set
\* and TIMEOUT "2".
Environments ==
    { [TOPIC |-> Unset, TIMEOUT |-> UnsetChars],
      [TOPIC |-> Set("alerts"), TIMEOUT |-> SetChars(<<"0">>)],
      [TOPIC |-> Set("alerts"), TIMEOUT |-> SetChars(<<"2">>)] }

\* Values of TOPIC and of TIMEOUT for the resolution of the configuration:
\* TOPIC unset, empty or a name; TIMEOUT unset, empty, zero, negative, not a
\* number, signed, padded, a positive number, or u64::MAX + 1.
TopicInputs == { Unset, Set(""), Set("alerts") }

TimeoutInputs ==
    { UnsetChars, SetChars(<< >>), SetChars(<<"0">>), SetChars(<<"-", "1">>),
      SetChars(<<"a", "b", "c">>), SetChars(<<"+", "2">>),
      SetChars(<<"0", "0", "7">>), SetChars(<<"1", " ">>),
      SetChars(<<"2">>), SetChars(<<"1", "2", "0">>),
      SetChars(<< "1", "8", "4", "4", "6", "7", "4", "4", "0", "7",
                  "3", "7", "0", "9", "5", "5", "1", "6", "1", "6" >>) }

ConfigEnvironments ==
    { [TOPIC |-> t, TIMEOUT |-> s] : t \in TopicInputs, s \in TimeoutInputs }

Digits == { "0", "1", "2", "3", "4", "5", "6", "7", "8", "9" }

DigitValue(c) ==
    CASE c = "0" -> 0 [] c = "1" -> 1 [] c = "2" -> 2 [] c = "3" -> 3
      [] c = "4" -> 4 [] c = "5" -> 5 [] c = "6" -> 6 [] c = "7" -> 7
      [] c = "8" -> 8 [] c = "9" -> 9

RECURSIVE DigitsValue(_, _)
DigitsValue(cs, acc) ==
    IF cs = <<>> THEN acc
    ELSE DigitsValue(Tail(cs), acc * 10 + DigitValue(Head(cs)))

\* The digits of u64::MAX, 18446744073709551615.
U64_MAX ==
    << "1", "8", "4", "4", "6", "7", "4", "4", "0", "7",
       "3", "7", "0", "9", "5", "5", "1", "6", "1", "5" >>

RECURSIVE StripZeros(_)
StripZeros(ds) ==
    IF ds # <<>> /\ Head(ds) = "0" THEN StripZeros(Tail(ds)) ELSE ds

\* a > b, for digit strings of the same length
RECURSIVE DigitsAbove(_, _)
DigitsAbove(a, b) ==
    IF a = <<>> THEN FALSE
    ELSE IF Head(a) # Head(b) THEN DigitValue(Head(a)) > DigitValue(Head(b))
    ELSE DigitsAbove(Tail(a), Tail(b))

\* The number written by the digits ds is above u64::MAX (PosOverflow).
Overflows(ds) ==
    LET sig == StripZeros(ds)
    IN  \/ Len(sig) > Len(U64_MAX)
        \/ Len(sig) = Len(U64_MAX) /\ DigitsAbove(sig, U64_MAX)

\* str::parse::<u64>: an optional '+', then one or more decimal digits
\* that write a number up to u64::MAX; -1 stands for Err.
ParseU64(cs) ==
    LET ds == IF cs # <<>> /\ Head(cs) = "+" THEN Tail(cs) ELSE cs
    IN  IF ds # <<>> /\ \A i \in 1..Len(ds) : ds[i] \in Digits
        THEN IF Overflows(ds) THEN -1 ELSE DigitsValue(ds, 0)
        ELSE -1

\* env::var("TIMEOUT").ok().and_then(parse).filter(t > 0).unwrap_or(DEFAULT_TIMEOUT)
ResolveTimeout(e) ==
    IF e.TIMEOUT.set /\ ParseU64(e.TIMEOUT.val) > 0
    THEN ParseU64(e.TIMEOUT.val)
    ELSE DEFAULT_TIMEOUT

\* env::var("TOPIC").map_err(..)?
TopicMissing(e) == ~e.TOPIC.set

----------------------------------------------------------------------------
(* serde_json::from_str::<WSMessage>: event and topic are required strings, *)
(* message is an optional string (absent or null reads as None).  A struct  *)
(* is also read from an array holding exactly its fields, in order.         *)

DecodeError == [ok |-> FALSE, event |-> "", topic |-> "", message |-> Null]

WSMessage(e, t, m) == [ok |-> TRUE, event |-> e, topic |-> t, message |-> m]

\* as from_str, with a missing event read as "message"
from_str_default_event(b) ==
    IF b.form = "object" /\ b.event.t = "absent"
       /\ b.topic.t = "str" /\ b.message.t \in { "absent", "null", "str" }
    THEN WSMessage("message", b.topic.s,
                   IF b.message.t = "str" THEN b.message ELSE Null)
    ELSE DecodeError

from_str(b) ==
    CASE b.form = "object" ->
            IF /\ b.event.t = "str"
               /\ b.topic.t = "str"
               /\ b.message.t \in { "absent", "null", "str" }
            THEN WSMessage(b.event.s, b.topic.s,
                           IF b.message.t = "str" THEN b.message ELSE Null)
            ELSE DecodeError
      [] b.form = "array" ->
            IF /\ b.event.t = "str"
               /\ b.topic.t = "str"
               /\ b.message.t \in { "null", "str" }
            THEN WSMessage(b.event.s, b.topic.s, b.message)
            ELSE DecodeError
      [] OTHER -> DecodeError

\* the event is compared, the topic is not
EventMatchOnly(msg, tp) == msg.event = "message"

\* if (msg.topic == topic) && (msg.event == "message")
TopicAndEventMatch(msg, tp) == (msg.topic = tp) /\ (msg.event = "message")

\* the task is handed the envelope's topic instead of its message
SpawnedTopic(b, tp) ==
    LET msg == IF b.form \in { "object", "array" } /\ b.event.t = "str"
                  /\ b.topic.t = "str" /\ b.message.t = "str"
               THEN WSMessage(b.event.s, b.topic.s, b.message)
               ELSE DecodeError
    IN  IF msg.ok /\ (msg.topic = tp) /\ (msg.event = "message")
        THEN << msg.topic >>
        ELSE << >>

\* The texts for which the Text arm spawns a set_clip task: none or one.
Spawned(b, tp) ==
    LET msg == from_str(b)
    IN  IF msg.ok /\ TopicAndEventMatch(msg, tp) /\ msg.message.t = "str"
        THEN << msg.message.s >>
        ELSE << >>

\* only data frames refresh last_traffic
TouchDataOnly(f, n, last) == IF f.kind = "Text" THEN n ELSE last

\* last_traffic = Instant::now(), for every item the stream yields
Touch(f, n, last) == n

\* the comparison is >= instead of >
IdleExpiredAtLimit(n, last, t) == n - last >= t

\* twice the timeout is allowed
IdleExpiredTwice(n, last, t) == n - last > 2 * t

\* last_traffic.elapsed() > Duration::from_secs(timeout)
IdleExpired(n, last, t) == n - last > t

\* the pong is sent without the ping's payload
PongEmpty(p) == Pong("")

\* Message::Pong(ping)
PongFor(p) == Pong(p)

\* the Err arm does not sleep
AfterReturnNoSleep(out) == "start"

\* a failed connect ends the process
AfterReturnExit(out) ==
    IF out = "ClosedByPeer" THEN "start"
    ELSE IF out = "ConnectError" THEN "exit" ELSE "cooldown"

\* main's match on the result: Ok loops at once, Err sleeps first
AfterReturn(out) == IF out = "ClosedByPeer" THEN "start" ELSE "cooldown"

\* the connection is kept open after connect_and_run returns
DropStreamLeak(c) == c

\* ws_stream is dropped when connect_and_run returns
DropStream(c) == c - 1

\* the instants the clock is read at: each whole timer period up to
\* MaxPeriods, on the second or one second late
Instants(t) == { t * c + late : c \in 0..MaxPeriods, late \in { 0, 1 } }

Outcomes ==
    { "none", "ConfigError", "ConnectError", "TransportError", "IdleTimeout",
      "ClosedByPeer" }

Failures == Outcomes \ { "none", "ClosedByPeer" }

----------------------------------------------------------------------------
\* The state in which main enters its loop (line 110).
Started ==
    /\ envReads = 0
    /\ pc = "start"
    /\ attempts = 0
    /\ endings = 0
    /\ outcome = "none"
    /\ waited = 0
    /\ conns = 0
    /\ topic = ""
    /\ timeout = DEFAULT_TIMEOUT
    /\ now = 0
    /\ last_traffic = 0
    /\ ping_interval = 0
    /\ ws_stream = << >>
    /\ arrived = 0
    /\ ended = FALSE
    /\ handled = 0
    /\ ping = ""
    /\ sent = << >>
    /\ pings = << >>
    /\ sinkLog = << >>
    /\ tasks = << >>
    /\ wrote = << >>
    /\ clipboard = ""
    /\ lastFrame = NoFrame
    /\ frameAt = 0

Init ==
    /\ env \in Environments
    /\ Started

\* The process is started in any of the environments of ConfigEnvironments.
InitConfig ==
    /\ env \in ConfigEnvironments
    /\ Started

clock == <<now, last_traffic, ping_interval, frameAt>>

sink == <<sinkLog, tasks, wrote, clipboard>>

wire == <<ws_stream, arrived, ended, handled, ping, sent, pings, lastFrame>>

\* connect_and_run returns `out`, leaving `c` connections open.
Return(out, c) ==
    /\ pc' = AfterReturn(out)
    /\ outcome' = out
    /\ endings' = endings + 1
    /\ waited' = 0
    /\ conns' = c
    /\ ws_stream' = << >>
    /\ ended' = FALSE
    /\ ping' = ""

\* main calls connect_and_run; TOPIC is not set (line 132).
ConfigError ==
    /\ pc = "start"
    /\ attempts < MaxAttempts
    /\ TopicMissing(env)
    /\ attempts' = attempts + 1
    /\ timeout' = ResolveTimeout(env)
    /\ Return("ConfigError", conns)
    /\ envReads' = envReads + 1
    /\ UNCHANGED <<env, topic, clock, arrived, handled, sent, pings, lastFrame,
                   sink>>

\* main calls connect_and_run, which reads the environment, builds the
\* request and calls connect_async; the call is suspended at that await
\* (lines 111, 124-147).
Connect ==
    /\ pc = "start"
    /\ attempts < MaxAttempts
    /\ ~TopicMissing(env)
    /\ attempts' = attempts + 1
    /\ envReads' = envReads + 1
    /\ timeout' = ResolveTimeout(env)
    /\ topic' = env.TOPIC.val
    /\ pc' = "connect_async"
    /\ outcome' = "none"
    /\ UNCHANGED <<env, endings, waited, conns, clock, wire, sink>>

\* connect_async(request).await returns Err, which `?` returns (line 147).
ConnectFails ==
    /\ pc = "connect_async"
    /\ Return("ConnectError", conns)
    /\ UNCHANGED <<env, envReads, attempts, topic, timeout, clock, arrived,
                   handled, sent, pings, lastFrame, sink>>

\* connect_async(request).await returns the stream; the interval and
\* last_traffic are created (lines 147-151).
Connected ==
    /\ pc = "connect_async"
    /\ pc' = "select"
    /\ conns' = conns + 1
    /\ now' = 0
    /\ ping_interval' = 0
    /\ last_traffic' = 0
    /\ frameAt' = 0
    /\ ws_stream' = << >>
    /\ ping' = ""
    /\ sent' = << >>
    /\ pings' = << >>
    /\ lastFrame' = NoFrame
    /\ ended' = FALSE
    /\ UNCHANGED <<env, envReads, attempts, endings, outcome, waited, topic,
                   timeout, arrived, handled, sink>>

\* tokio::time::sleep(Duration::from_secs(5)) completes (line 116).
CooldownElapsed ==
    /\ pc = "cooldown"
    /\ waited' = waited + COOLDOWN_SECS
    /\ pc' = "start"
    /\ UNCHANGED <<env, envReads, attempts, endings, outcome, conns, topic, timeout,
                   clock, wire, sink>>

\* The clock moves on while the session is suspended.
Advance ==
    /\ pc \in { "select", "pong_send" }
    /\ \E n \in Instants(timeout) : n > now /\ now' = n
    /\ UNCHANGED <<env, envReads, pc, attempts, endings, outcome, waited, conns, topic,
                   timeout, last_traffic, ping_interval, frameAt, wire, sink>>

\* The transport delivers a frame (or a read error) to the stream.
Arrive ==
    /\ pc \in { "select", "pong_send" }
    /\ Len(ws_stream) < MaxQueue
    /\ arrived < MaxFrames
    /\ ~ended
    /\ \E f \in Frames : ws_stream' = Append(ws_stream, f)
    /\ arrived' = arrived + 1
    /\ UNCHANGED <<env, envReads, pc, attempts, endings, outcome, waited, conns, topic,
                   timeout, clock, ended, handled, ping, sent, pings,
                   lastFrame, sink>>

\* select! takes the stream's branch for a frame of kind k (lines 155-156).
Take(k) ==
    /\ pc = "select"
    /\ ws_stream # << >>
    /\ Head(ws_stream).kind = k
    /\ last_traffic' = Touch(Head(ws_stream), now, last_traffic)
    /\ frameAt' = now
    /\ lastFrame' = Head(ws_stream)
    /\ handled' = handled + 1
    /\ UNCHANGED <<env, envReads, attempts, topic, timeout, now, ping_interval,
                   arrived>>

StaysInLoop ==
    /\ ws_stream' = Tail(ws_stream)
    /\ UNCHANGED <<pc, endings, outcome, waited, conns, ping, ended>>

\* Ok(Message::Text(text)) (lines 158-176)
HandleText ==
    /\ Take("Text")
    /\ StaysInLoop
    /\ LET texts == Spawned(Head(ws_stream).body, topic)
       IN  /\ sinkLog' = sinkLog \o texts
           /\ tasks' = tasks \o texts
           /\ wrote' = wrote \o [i \in 1..Len(texts) |-> FALSE]
    /\ UNCHANGED <<sent, pings, clipboard>>

\* Ok(Message::Ping(ping)): the pong is handed to ws_stream.send (line 178)
HandlePing ==
    /\ Take("Ping")
    /\ ws_stream' = Tail(ws_stream)
    /\ ping' = Head(ws_stream).payload
    /\ pings' = Append(pings, Head(ws_stream).payload)
    /\ pc' = "pong_send"
    /\ UNCHANGED <<endings, outcome, waited, conns, ended, sent, sink>>

\* ws_stream.send(..).await returns Ok (lines 178-179)
PongSent ==
    /\ pc = "pong_send"
    /\ sent' = Append(sent, PongFor(ping))
    /\ ping' = ""
    /\ pc' = "select"
    /\ UNCHANGED <<env, envReads, attempts, endings, outcome, waited, conns, topic,
                   timeout, clock, ws_stream, arrived, ended, handled, pings,
                   lastFrame, sink>>

\* ws_stream.send(..).await? returns Err (line 178)
PongFails ==
    /\ pc = "pong_send"
    /\ Return("TransportError", DropStream(conns))
    /\ UNCHANGED <<env, envReads, attempts, topic, timeout, clock, arrived,
                   handled, sent, pings, lastFrame, sink>>

\* Ok(Message::Pong(_)) (lines 181-183)
HandlePong ==
    /\ Take("Pong")
    /\ StaysInLoop
    /\ UNCHANGED <<sent, pings, sink>>

\* A variant in which the tasks spawned by the session are aborted when
\* the session ends with a close frame.
HandleCloseAborts ==
    /\ Take("Close")
    /\ Return("ClosedByPeer", DropStream(conns))
    /\ tasks' = << >>
    /\ wrote' = << >>
    /\ UNCHANGED <<sent, pings, sinkLog, clipboard>>

\* Ok(Message::Close(_)) => return Ok(()) (lines 184-187)
HandleClose ==
    /\ Take("Close")
    /\ Return("ClosedByPeer", DropStream(conns))
    /\ UNCHANGED <<sent, pings, sink>>

\* A variant in which a receive error is logged and the loop goes on.
HandleErrorContinues ==
    /\ Take("Err")
    /\ StaysInLoop
    /\ UNCHANGED <<sent, pings, sink>>

\* Err(e) => return Err(..) (lines 188-190)
HandleError ==
    /\ Take("Err")
    /\ Return("TransportError", DropStream(conns))
    /\ UNCHANGED <<sent, pings, sink>>

\* _ => {} (line 191)
HandleOther ==
    /\ Take("Binary")
    /\ StaysInLoop
    /\ UNCHANGED <<sent, pings, sink>>

\* A variant in which the end of the stream is taken as a clean close:
\* connect_and_run returns Ok(()).
StreamEndsCloses ==
    /\ pc = "select"
    /\ ws_stream = << >>
    /\ ~ended
    /\ ended' = TRUE
    /\ pc' = AfterReturn("ClosedByPeer")
    /\ outcome' = "ClosedByPeer"
    /\ endings' = endings + 1
    /\ waited' = 0
    /\ conns' = DropStream(conns)
    /\ UNCHANGED <<env, envReads, attempts, topic, timeout, clock, ws_stream,
                   arrived, handled, ping, sent, pings, lastFrame, sink>>

\* select! polls ws_stream.next(), which yields None: the pattern
\* Some(msg) does not match, the branch is disabled and only the timer is
\* awaited (lines 154-155); the stream yields None from then on.
StreamEnds ==
    /\ pc = "select"
    /\ ws_stream = << >>
    /\ ~ended
    /\ ended' = TRUE
    /\ UNCHANGED <<env, envReads, pc, attempts, endings, outcome, waited, conns,
                   topic, timeout, clock, ws_stream, arrived, handled, ping,
                   sent, pings, lastFrame, sink>>

\* A variant in which the frame that is ready when the timer's branch is
\* taken is consumed by the cancelled ws_stream.next() and lost.
TickDropsFrame ==
    /\ pc = "select"
    /\ now >= ping_interval
    /\ ping_interval' = ping_interval + timeout
    /\ IF IdleExpired(now, last_traffic, timeout)
       THEN Return("IdleTimeout", DropStream(conns))
       ELSE /\ ws_stream' = IF ws_stream = << >> THEN << >>
                                                ELSE Tail(ws_stream)
            /\ UNCHANGED <<pc, outcome, endings, waited, conns, ping, ended>>
    /\ UNCHANGED <<env, envReads, attempts, topic, timeout, now, last_traffic,
                   frameAt, arrived, handled, sent, pings, lastFrame, sink>>

\* A variant in which the timer's branch also writes last_traffic.
TickTouches ==
    /\ pc = "select"
    /\ now >= ping_interval
    /\ ping_interval' = ping_interval + timeout
    /\ last_traffic' = now
    /\ IF IdleExpired(now, last_traffic, timeout)
       THEN Return("IdleTimeout", DropStream(conns))
       ELSE UNCHANGED <<pc, outcome, endings, waited, conns, ws_stream, ping,
                         ended>>
    /\ UNCHANGED <<env, envReads, attempts, topic, timeout, now, frameAt,
                   arrived, handled, sent, pings, lastFrame, sink>>

\* select! takes the timer's branch (lines 194-198)
Tick ==
    /\ pc = "select"
    /\ now >= ping_interval
    /\ ping_interval' = ping_interval + timeout
    /\ IF IdleExpired(now, last_traffic, timeout)
       THEN Return("IdleTimeout", DropStream(conns))
       ELSE UNCHANGED <<pc, outcome, endings, waited, conns, ws_stream, ping,
                         ended>>
    /\ UNCHANGED <<env, envReads, attempts, topic, timeout, now, last_traffic, frameAt,
                   arrived, handled, sent, pings, lastFrame, sink>>

Remove(s, i) == SubSeq(s, 1, i - 1) \o SubSeq(s, i + 1, Len(s))

\* The command of a running set_clip task, which was handed the text on
\* its stdin, writes it to the clipboard while the task is suspended
\* (lines 74-77); a command writes at most once.
ClipWrites ==
    /\ \E i \in 1..Len(tasks) :
          /\ ~wrote[i]
          /\ clipboard' = tasks[i]
          /\ wrote' = [wrote EXCEPT ![i] = TRUE]
    /\ UNCHANGED <<env, envReads, pc, attempts, endings, outcome, waited, conns,
                   topic, timeout, clock, wire, sinkLog, tasks>>

\* a spawned set_clip task returns Ok(()): child.wait() has returned,
\* whatever the command's exit status and whether or not it has written
\* (lines 77-79)
SetClipDone ==
    /\ \E i \in 1..Len(tasks) :
          /\ tasks' = Remove(tasks, i)
          /\ wrote' = Remove(wrote, i)
    /\ UNCHANGED <<env, envReads, pc, attempts, endings, outcome, waited, conns, topic,
                   timeout, clock, wire, sinkLog, clipboard>>

\* A variant in which the error of a spawned set_clip task is escalated
\* to the session, which returns it.
SetClipFailsEscalates ==
    /\ \E i \in 1..Len(tasks) :
          /\ tasks' = Remove(tasks, i)
          /\ wrote' = Remove(wrote, i)
    /\ IF pc = "select"
       THEN Return("TransportError", DropStream(conns))
       ELSE UNCHANGED <<pc, outcome, endings, waited, conns, ws_stream, ping,
                         ended>>
    /\ UNCHANGED <<env, envReads, attempts, topic, timeout, clock, arrived,
                   handled, sent, pings, lastFrame, sinkLog, clipboard>>

\* a spawned set_clip task returns Err, which is logged (lines 165-167)
SetClipFails ==
    /\ \E i \in 1..Len(tasks) :
          /\ tasks' = Remove(tasks, i)
          /\ wrote' = Remove(wrote, i)
    /\ UNCHANGED <<env, envReads, pc, attempts, endings, outcome, waited, conns, topic,
                   timeout, clock, wire, sinkLog, clipboard>>

Next ==
    \/ ConfigError
    \/ Connect
    \/ ConnectFails
    \/ Connected
    \/ CooldownElapsed
    \/ Advance
    \/ Arrive
    \/ HandleText
    \/ HandlePing
    \/ PongSent
    \/ PongFails
    \/ HandlePong
    \/ HandleClose
    \/ HandleError
    \/ HandleOther
    \/ StreamEnds
    \/ Tick
    \/ ClipWrites
    \/ SetClipDone
    \/ SetClipFails

Spec == Init /\ [][Next]_vars

\* main's loop up to the result of connect_async, for the resolution of the
\* configuration over ConfigEnvironments.
NextConfig ==
    \/ ConfigError
    \/ Connect
    \/ ConnectFails
    \/ Connected
    \/ CooldownElapsed

ConfigSpec == InitConfig /\ [][NextConfig]_vars

\* The sleep of main's loop completes, main's loop makes its next call of
\* connect_and_run, the clock moves on, and a timer that is due while
\* select! waits is polled.  Nothing makes connect_async answer.
FairSpec ==
    /\ Spec
    /\ WF_vars(CooldownElapsed)
    /\ WF_vars(ConfigError \/ Connect)
    /\ WF_vars(Advance)
    /\ WF_vars(Tick)

----------------------------------------------------------------------------
(* Definitions used by the properties. *)

InSession == pc \in { "select", "pong_send" }

\* A call of connect_and_run has not returned.
InCall == pc = "connect_async" \/ InSession

\* The condition under which a frame is to be dispatched: a text frame whose
\* decoded envelope has the configured topic, the event "message" and a
\* message that is present.
Qualifies(f, tp) ==
    /\ f.kind = "Text"
    /\ from_str(f.body).ok
    /\ from_str(f.body).topic = tp
    /\ from_str(f.body).event = "message"
    /\ from_str(f.body).message # Null

MessageOf(f) == from_str(f.body).message.s

\* A text frame that is not JSON, or is a JSON object without event or
\* without topic.
Malformed(f) ==
    /\ f.kind = "Text"
    /\ \/ f.body.form = "garbage"
       \/ /\ f.body.form = "object"
          /\ (f.body.event.t = "absent" \/ f.body.topic.t = "absent")

\* This step takes a frame from the stream; the frame is lastFrame'.
HandlesFrame == handled' = handled + 1

----------------------------------------------------------------------------
\* C1: every return of connect_and_run is followed by exactly one more call
\* (attempts = endings + 1 while a call is in progress, attempts = endings
\* between calls); when main is about to call again after a failure it has
\* slept exactly the 5-second cooldown, and after a clean close (or at the
\* first call) it has not slept at all; the cooldown is only entered on a
\* failure.
C1_RetryAccounting ==
    /\ attempts = endings + (IF InCall THEN 1 ELSE 0)
    /\ pc = "start" =>
          /\ outcome \in Failures => waited = COOLDOWN_SECS
          /\ outcome \notin Failures => waited = 0
    /\ pc = "cooldown" => outcome \in Failures /\ waited = 0
    /\ pc \in { "start", "cooldown", "connect_async", "select", "pong_send" }

\* Two calls have returned, the last one with an idle timeout; main has
\* slept 5 seconds and is about to make the third call.
C1_Witness ==
    /\ pc = "start"
    /\ attempts = 2
    /\ endings = 2
    /\ outcome = "IdleTimeout"
    /\ waited = COOLDOWN_SECS

\* C2: after every return of connect_and_run (whatever the outcome) a new
\* call eventually follows, as long as the model's bound on calls allows
\* one: there is no retry limit and no exit.
C2_Perpetuity ==
    \A k \in 1..(MaxAttempts - 1) :
        (endings = k /\ attempts = k) ~> (attempts = k + 1)

\* The last call the bound allows is in progress after MaxAttempts - 1
\* returns, the latest one a failure followed by the cooldown.
C2_Witness ==
    /\ attempts = MaxAttempts
    /\ endings = MaxAttempts - 1
    /\ waited = COOLDOWN_SECS
    /\ pc = "select"

\* C3: a set_clip task is spawned only by a step that takes a frame which
\* qualifies (text frame, decoded envelope with the configured topic, event
\* "message" and a present message); a text frame that does not qualify
\* spawns nothing and leaves the session in its loop with its connection.
C3_DispatchFilter ==
    [][ /\ (sinkLog' # sinkLog \/ Len(tasks') > Len(tasks)) =>
              HandlesFrame /\ Qualifies(lastFrame', topic)
        /\ (HandlesFrame /\ lastFrame'.kind = "Text"
                /\ ~Qualifies(lastFrame', topic)) =>
              /\ sinkLog' = sinkLog
              /\ tasks' = tasks
              /\ pc' = "select"
              /\ conns' = conns
              /\ endings' = endings ]_vars

\* A message for another topic has been handled: nothing was spawned and
\* the session is still in its loop.
C3_Witness ==
    /\ pc = "select"
    /\ lastFrame = Text(Obj(Str("message"), Str("other"), Str("x")))
    /\ handled = 1
    /\ sinkLog = << >>

\* C4: a step spawns a set_clip task exactly when it takes a qualifying
\* frame; it then spawns exactly one task, which carries the envelope's
\* message text; every other step spawns nothing.  Hence the tasks spawned
\* over a run are, in order, the messages of the qualifying frames taken.
C4_DispatchFidelity ==
    [][ IF HandlesFrame /\ Qualifies(lastFrame', topic)
        THEN /\ sinkLog' = Append(sinkLog, MessageOf(lastFrame'))
             /\ tasks' = Append(tasks, MessageOf(lastFrame'))
        ELSE /\ sinkLog' = sinkLog
             /\ Len(tasks') <= Len(tasks) ]_vars

\* Two qualifying frames with different texts have been taken and two tasks
\* were spawned with these texts, in order.
C4_Witness ==
    /\ handled = 2
    /\ sinkLog = << "hello", "build failed" >>
    /\ tasks = << "hello", "build failed" >>

\* C5: a session ends with the idle timeout only when the clock is more
\* than `timeout` past last_traffic, hence never before `timeout` seconds
\* have passed since the connection was made (a tick at the instant of
\* connection does nothing); and a session in which no frame arrives ends
\* with the idle timeout.
C5_IdleTimeout ==
    /\ [](outcome = "IdleTimeout" =>
              /\ now - last_traffic > timeout
              /\ now > timeout
              /\ timeout > 0)
    /\ [][ (pc = "select" /\ now <= timeout /\ last_traffic = 0
                /\ ping_interval' # ping_interval) => pc' = "select" ]_vars
    /\ \A k \in 1..MaxAttempts :
          (pc = "select" /\ attempts = k /\ lastFrame = NoFrame
                /\ ws_stream = << >>)
             ~> \/ (endings = k /\ outcome = "IdleTimeout")
                \/ (attempts = k /\ ws_stream # << >>)

\* A session in which no frame arrived at all has ended with the idle
\* timeout.
C5_Witness ==
    /\ pc = "cooldown"
    /\ outcome = "IdleTimeout"
    /\ arrived = 0
    /\ attempts = 1
    /\ last_traffic = 0

\* C6: when a session ends with the idle timeout, more than `timeout`
\* seconds have passed since the latest frame of any kind was taken (since
\* the connection was made if none was): a session whose frames, control
\* frames included, are never more than `timeout` apart does not time out.
C6_ControlTrafficCounts ==
    outcome = "IdleTimeout" => now - frameAt > timeout

\* A session that has only taken pings and pongs is alive after the ticks
\* at 0, timeout and 2 * timeout.
C6_Witness ==
    /\ pc = "select"
    /\ attempts = 1
    /\ handled > 0
    /\ lastFrame.kind \in { "Ping", "Pong" }
    /\ sinkLog = << >>
    /\ ping_interval = 3 * timeout

\* C7: the frames written in a session are exactly the pongs for the pings
\* taken, in order and with the same payloads; the pong of a ping is
\* written before the loop takes anything else (only the pong being written,
\* or the one whose write failed, is missing).
C7_PongEcho ==
    /\ Len(sent) <= Len(pings)
    /\ Len(pings) <= Len(sent) + 1
    /\ \A i \in 1..Len(sent) : sent[i] = Pong(pings[i])
    /\ pc = "select" => Len(sent) = Len(pings)
    /\ pc = "pong_send" => Len(pings) = Len(sent) + 1 /\ ping = pings[Len(pings)]

\* Two pings with different payloads have been answered, in order.
C7_Witness ==
    /\ pc = "select"
    /\ pings = << "a", "b" >>
    /\ sent = << Pong("a"), Pong("b") >>

\* C8: taking a malformed text frame (not JSON, or an object without event
\* or without topic) spawns nothing, does not end the session and leaves it
\* waiting in select! with the rest of the stream; a qualifying frame taken
\* right after a malformed one is dispatched.
C8_MalformedResilience ==
    [][ /\ (HandlesFrame /\ Malformed(lastFrame')) =>
              /\ pc' = "select"
              /\ conns' = conns
              /\ endings' = endings
              /\ outcome' = outcome
              /\ sinkLog' = sinkLog
              /\ tasks' = tasks
              /\ ws_stream' = Tail(ws_stream)
        /\ (Malformed(lastFrame) /\ HandlesFrame
                /\ Qualifies(lastFrame', topic)) =>
              sinkLog' = Append(sinkLog, MessageOf(lastFrame')) ]_vars

\* An object without event has been taken, nothing was spawned, and the
\* session waits in select! with a qualifying frame next in the stream.
C8_Witness ==
    /\ pc = "select"
    /\ lastFrame = Text(Obj(Absent, Str("alerts"), Str("hello")))
    /\ sinkLog = << >>
    /\ ws_stream # << >>
    /\ Qualifies(Head(ws_stream), topic)

\* C9: when TOPIC is not set the process stops before main's loop calls
\* connect_and_run: no call is made, nothing is slept, no cooldown is
\* entered.
C9_MissingTopicIsFatal ==
    TopicMissing(env) => (attempts = 0 /\ pc # "cooldown" /\ waited = 0)

\* C10: at most one connection is open; one is open exactly while a session
\* runs; main is about to call connect_and_run again only when the previous
\* call has returned with an outcome and its connection is closed.
C10_OneSession ==
    /\ conns \in { 0, 1 }
    /\ InSession <=> conns = 1
    /\ InSession => outcome = "none"
    /\ (pc \in { "start", "cooldown" } /\ attempts > 0) =>
          /\ outcome # "none"
          /\ ws_stream = << >>

\* A second session is live; the first one took a frame and was closed.
C10_Witness ==
    /\ pc = "select"
    /\ attempts = 2
    /\ conns = 1
    /\ handled > 0
    /\ lastFrame = NoFrame

\* The handling of the frame at the head of the stream, whatever its kind.
FrameStep ==
    \/ HandleText
    \/ HandlePing
    \/ HandlePong
    \/ HandleClose
    \/ HandleError
    \/ HandleOther

\* The state of the session and of main's loop.
sessionVars == <<pc, attempts, endings, outcome, waited, conns, topic, timeout,
                 last_traffic, ping_interval, ws_stream, ended, handled, ping,
                 sent, pings, lastFrame, frameAt>>

\* C11: the session never waits for a set_clip task nor sees its result:
\* with any number of tasks in flight a ready frame can be handled and a due
\* tick can be taken, and the end of a task, by success or by failure,
\* and the write of a task's command to the clipboard change neither
\* last_traffic nor the outcome nor anything else of the session or of
\* main's loop.
C11_SinkIsolation ==
    /\ [](pc = "select" /\ ws_stream # << >> => ENABLED FrameStep)
    /\ [](pc = "select" /\ now >= ping_interval => ENABLED Tick)
    /\ [][(Len(tasks') < Len(tasks) \/ clipboard' # clipboard)
              => UNCHANGED sessionVars]_vars

\* Two tasks were spawned in a live session; one has ended without its
\* command having written the clipboard, the other is still in flight, a
\* frame handling or a tick is next.
C11_Witness ==
    /\ pc = "select"
    /\ Len(sinkLog) = 2
    /\ Len(tasks) = 1
    /\ clipboard = ""
    /\ now >= ping_interval

\* C12: the environment is read once, before main's loop: however many times
\* connect_and_run has been called, one reading of the environment has been
\* made.
C12_ResolvedOnce ==
    attempts >= 1 => envReads = 1

\* This step ends the session with a transport failure: connect_and_run
\* returns Err, the connection is dropped and main goes to its sleep.
FailsSession ==
    /\ outcome' = "TransportError"
    /\ pc' = "cooldown"
    /\ endings' = endings + 1
    /\ conns' = 0
    /\ ws_stream' = << >>

\* C13: the step that takes a receive error from the stream, and the step in
\* which the write of a pong fails, end the session with a failure outcome;
\* no frame is handled between the end of a session and the next connect;
\* and main is back at the call of connect_and_run after a transport failure
\* only once the 5 s sleep has elapsed.
C13_TransportFailureTerminal ==
    /\ [][ /\ (HandlesFrame /\ lastFrame' = RecvError) => FailsSession
           /\ (pc = "pong_send" /\ pc' # "pong_send" /\ sent' = sent)
                 => FailsSession
           /\ ~InSession => handled' = handled ]_vars
    /\ [](outcome = "TransportError" /\ pc = "start"
             => waited = COOLDOWN_SECS)

\* A session took a receive error, returned Err, and main's sleep of 5 s
\* has elapsed.
C13_Witness ==
    /\ pc = "start"
    /\ outcome = "TransportError"
    /\ lastFrame = RecvError
    /\ waited = COOLDOWN_SECS
    /\ conns = 0

\* This step takes the timer's branch of a live session.
TakesTick == InSession /\ ping_interval' # ping_interval

\* This step ends the session.
EndsSession == InSession /\ endings' = endings + 1

\* C14: a step of the loop handles one frame or one tick, never both; the
\* frame handled is the oldest one waiting and it alone leaves the stream; a
\* tick that does not end the session leaves the waiting frames where they
\* are; and the waiting frames change only by an arrival at the back, by the
\* handling of the front one, or by the end of the session.
C14_RaceDiscipline ==
    [][ /\ HandlesFrame =>
              /\ pc = "select"
              /\ ws_stream # << >>
              /\ lastFrame' = Head(ws_stream)
              /\ ~TakesTick
              /\ ws_stream' = Tail(ws_stream) \/ EndsSession
        /\ TakesTick =>
              /\ pc = "select"
              /\ handled' = handled
              /\ ws_stream' = ws_stream \/ EndsSession
        /\ ws_stream' # ws_stream =>
              \/ HandlesFrame /\ ws_stream' = Tail(ws_stream)
              \/ /\ handled' = handled
                 /\ \E f \in Frames : ws_stream' = Append(ws_stream, f)
              \/ EndsSession /\ ws_stream' = << >> ]_vars

\* Both branches of select! are ready, with two frames waiting, after a
\* tick at or after the first period was taken and the session went on.
C14_Witness ==
    /\ pc = "select"
    /\ Len(ws_stream) = 2
    /\ ws_stream[1] # ws_stream[2]
    /\ now >= ping_interval
    /\ ping_interval >= 2 * timeout

\* This step is a successful connect: a session starts.
StartsSession == ~InSession /\ pc' = "select"

\* C15: last_traffic is written by the connect and by the handling of a
\* frame, and by nothing else; both set it to the current time, whatever
\* the kind of the frame; within a session it never decreases; and a tick
\* that does not end the session changes nothing but the timer's next
\* deadline.
C15_LastTrafficWrites ==
    [][ /\ last_traffic' # last_traffic => HandlesFrame \/ StartsSession
        /\ HandlesFrame =>
              /\ lastFrame'.kind \in { "Text", "Ping", "Pong", "Close",
                                        "Binary", "Err" }
              /\ last_traffic' = now
        /\ StartsSession => last_traffic' = now'
        /\ (InSession /\ ~EndsSession) => last_traffic' >= last_traffic
        /\ (TakesTick /\ ~EndsSession) =>
              /\ last_traffic' = last_traffic
              /\ UNCHANGED <<env, envReads, pc, attempts, endings, outcome,
                             waited, conns, topic, timeout, now, frameAt,
                             wire, sink>> ]_vars

\* A live session whose last frame handled was a pong, taken after the
\* first period, and which took a tick after that without ending.
C15_Witness ==
    /\ pc = "select"
    /\ lastFrame.kind = "Pong"
    /\ last_traffic >= timeout
    /\ last_traffic = frameAt
    /\ ping_interval > last_traffic + timeout

\* C16: the end of a session, whatever its outcome, and every step made
\* outside a session leave the tasks in flight as they are, unless the step
\* is the end of one task; tasks are added only by the handling of a frame
\* and removed one at a time; and whichever of the tasks in flight can be
\* the next one to end.
C16_SinkOutlivesSession ==
    /\ [][ /\ (EndsSession \/ ~InSession) =>
                 \/ tasks' = tasks
                 \/ \E i \in 1..Len(tasks) :
                       /\ tasks' = Remove(tasks, i)
                       /\ UNCHANGED sessionVars
           /\ EndsSession => tasks' = tasks
           /\ tasks' # tasks =>
                 \/ /\ HandlesFrame
                    /\ Len(tasks') = Len(tasks) + 1
                    /\ SubSeq(tasks', 1, Len(tasks)) = tasks
                 \/ \E i \in 1..Len(tasks) : tasks' = Remove(tasks, i) ]_vars
    /\ [](\A i \in 1..Len(tasks) :
             /\ ENABLED (tasks' = Remove(tasks, i) /\ SetClipDone)
             /\ ENABLED (tasks' = Remove(tasks, i) /\ SetClipFails))

\* Two tasks spawned by a first session, which the idle timeout ended, are
\* in flight while a second session runs.
C16_Witness ==
    /\ pc = "select"
    /\ attempts = 2
    /\ lastFrame = NoFrame
    /\ Len(tasks) = 2
    /\ tasks[1] # tasks[2]
    /\ clipboard = ""

\* C17: every call of connect_and_run that gets as far as the connection
\* attempt, and the session that follows, has a topic that is not empty and
\* a timeout above 0, whatever TOPIC and TIMEOUT are set to.
C17_ConfigInvariant ==
    (attempts >= 1 /\ outcome # "ConfigError") =>
        /\ topic # ""
        /\ timeout > 0

\* connect_and_run has just returned the idle-timeout error; the clock and
\* the timer are as the terminating tick left them.
IdleEnded == outcome = "IdleTimeout" /\ pc = "cooldown"

\* The deadline of the tick that was taken last.
LastDeadline == ping_interval - timeout

\* C18 as stated: the tick that ends an idle session has a deadline no later
\* than last_traffic + 2 * timeout, and a session that handled no frame at
\* all ends at the tick whose deadline is 2 * timeout.
C18_EndsAtSecondTick ==
    IdleEnded =>
        /\ LastDeadline <= last_traffic + 2 * timeout
        /\ lastFrame = NoFrame => LastDeadline = 2 * timeout

\* C18, amended: a tick ends the session exactly when it is taken more than
\* timeout after last_traffic, whether or not a frame was handled, so the
\* session ends at the first tick taken that late; while the session runs
\* the next deadline is at most last_traffic + 2 * timeout, so the tick
\* that ends it has a deadline no later than last_traffic + 2 * timeout;
\* and a session that handled no frame ends at the tick whose deadline is
\* 0, timeout or 2 * timeout, whichever is the first one taken later than
\* timeout after the connect.
C18_BoundedIdleDetection ==
    /\ [][ TakesTick =>
               (EndsSession <=> now > last_traffic + timeout) ]_vars
    /\ [](InSession => ping_interval <= last_traffic + 2 * timeout)
    /\ [](IdleEnded =>
             /\ LastDeadline <= now
             /\ now > last_traffic + timeout
             /\ LastDeadline <= last_traffic + 2 * timeout
             /\ lastFrame = NoFrame =>
                   LastDeadline \in { 0, timeout, 2 * timeout })

\* A session that handled no frame was ended by the tick whose deadline is
\* timeout, taken one second late.
C18_Witness ==
    /\ IdleEnded
    /\ lastFrame = NoFrame
    /\ LastDeadline = timeout
    /\ now = timeout + 1

\* The instants of the clock reach the deadline of the tick that finds the
\* session idle, which is at most last_traffic + 2 * timeout.
TimeLeft == last_traffic + 2 * timeout <= timeout * MaxPeriods + 1

\* C19: a live session with no frame waiting, whether it waits in select!
\* or is writing a pong, ends unless another frame arrives; the timer is
\* fair and nothing else is assumed.
C19_TerminatesUnderSilence ==
    \A k \in 1..MaxAttempts, a \in 0..MaxFrames :
        (InSession /\ attempts = k /\ arrived = a /\ ws_stream = << >>
            /\ TimeLeft)
          ~> (endings = k \/ arrived > a)

\* C20: the step in which the stream ends does not end the session; from
\* then on the session handles no frame, spawns no task and sends no pong;
\* while no tick is due no step of the loop is enabled; the session ends
\* only by a tick, with the idle timeout, after which main sleeps for 5 s
\* before its next call; and it does end so.
C20_ExhaustedStream ==
    /\ [][ /\ (~ended /\ ended') =>
                 /\ pc' = "select"
                 /\ endings' = endings
                 /\ outcome' = "none"
           /\ ended =>
                 /\ handled' = handled
                 /\ sinkLog' = sinkLog
                 /\ sent' = sent
                 /\ pings' = pings
                 /\ pc' # "pong_send"
           /\ (ended /\ endings' # endings) =>
                 /\ TakesTick
                 /\ outcome' = "IdleTimeout"
                 /\ pc' = "cooldown"
           /\ (outcome = "IdleTimeout" /\ pc = "cooldown" /\ pc' # pc) =>
                 /\ pc' = "start"
                 /\ waited' = COOLDOWN_SECS ]_vars
    /\ []((ended /\ now < ping_interval) =>
             ~ENABLED (FrameStep \/ Tick \/ StreamEnds))
    /\ \A k \in 1..MaxAttempts :
          (ended /\ attempts = k /\ TimeLeft)
             ~> (endings = k /\ outcome = "IdleTimeout")

\* The stream ended after a frame was handled; the session went on through
\* a tick, and the tick that is due now finds it idle.
C20_Witness ==
    /\ pc = "select"
    /\ ended
    /\ lastFrame # NoFrame
    /\ ping_interval >= 2 * timeout
    /\ now >= ping_interval
    /\ now > last_traffic + timeout

====
